---- MODULE Spec2Model ----
(***************************************************************************)
(* A model of package web (ljpx/web): the HandlerBuilder, the handler it   *)
(* compiles, the per-request Context and the MeasuredResponseWriter.       *)
(*                                                                         *)
(* Strings that the code converts (methods, paths) are sequences of        *)
(* one-character strings, so that ToUpper, ReplaceAll and TrimSpace are    *)
(* computed and not assumed.  A response body is the sequence of the       *)
(* chunks passed to Write; a chunk carries the value serialized and its    *)
(* byte count.                                                             *)
(***************************************************************************)
EXTENDS Integers, Sequences, FiniteSets, TLC

\* ------------------------------------------------------------------ bounds

\* Use calls made before Build.
MaxUses == 2

\* Body chunks a route's own code (middleware and handler) writes per request.
MaxWrites == 1

\* --------------------------------------------------------- HTTP constants

StatusOK == 200
StatusCreated == 201
StatusNotFound == 404
StatusMethodNotAllowed == 405
StatusInternalServerError == 500

\* Duration() reports zero under this many milliseconds.
DurationFloorMs == 5

\* ---------------------------------------------------------------- strings

LowerLetters == <<"a", "b", "c", "d", "e", "f", "g", "h", "i", "j", "k", "l", "m",
                  "n", "o", "p", "q", "r", "s", "t", "u", "v", "w", "x", "y", "z">>
UpperLetters == <<"A", "B", "C", "D", "E", "F", "G", "H", "I", "J", "K", "L", "M",
                  "N", "O", "P", "Q", "R", "S", "T", "U", "V", "W", "X", "Y", "Z">>

UpperChar(c) ==
    IF \E i \in 1..Len(LowerLetters) : LowerLetters[i] = c
    THEN UpperLetters[CHOOSE i \in 1..Len(LowerLetters) : LowerLetters[i] = c]
    ELSE c

\* strings.ToUpper
ToUpper(s) == [i \in 1..Len(s) |-> UpperChar(s[i])]

\* strings.ReplaceAll for a one-character old and new
ReplaceAll(s, old, new) == [i \in 1..Len(s) |-> IF s[i] = old THEN new ELSE s[i]]

RECURSIVE TrimLeft(_)
TrimLeft(s) == IF s # <<>> /\ Head(s) = " " THEN TrimLeft(Tail(s)) ELSE s

RECURSIVE TrimRight(_)
TrimRight(s) ==
    IF s # <<>> /\ s[Len(s)] = " " THEN TrimRight(SubSeq(s, 1, Len(s) - 1)) ELSE s

\* strings.TrimSpace
TrimSpace(s) == TrimRight(TrimLeft(s))

purifyPath(path) == TrimSpace(ReplaceAll(path, "\\", "/"))

\* ------------------------------------------------------------- the inputs

GET == <<"G", "E", "T">>
POST == <<"P", "O", "S", "T">>
PUT == <<"P", "U", "T">>
getLower == <<"g", "e", "t">>

\* The routes a program may declare.  Middleware() is the list of the
\* route's middleware, by name.
RouteA == [id |-> "A", method |-> GET, path |-> <<"/", "a">>,
           middleware |-> <<"auth", "audit">>]
RouteB == [id |-> "B", method |-> POST, path |-> <<" ", "\\", "a", " ">>,
           middleware |-> <<"auth">>]
RouteC == [id |-> "C", method |-> getLower, path |-> <<"/", "{v}">>,
           middleware |-> <<>>]

Routes == {RouteA, RouteB, RouteC}

NoRoute == [id |-> "none", method |-> <<>>, path |-> <<>>, middleware |-> <<>>]

\* The requests the transport may deliver.
RequestMethods == {GET, POST, PUT}

\* Request targets as they arrive on the request line: a path, and after a
\* "?" the query.
RequestTargets == {<<"/", "a">>, <<"/", "b", "?", "q", "=", "1">>}

\* r.URL.Path: the target up to, and without, the first "?".
RECURSIVE URLPath(_)
URLPath(target) ==
    IF target = <<>> \/ Head(target) = "?"
    THEN <<>>
    ELSE <<Head(target)>> \o URLPath(Tail(target))

\* Status codes the routes' own code responds with.
UserCodes == {StatusCreated}

\* Values a route's code panics with.
StringPanic == [kind |-> "string", text |-> "something to panic about"]
NilFuncPanic == [kind |-> "runtime",
                 text |-> "invalid memory address or nil pointer dereference"]
NoPanic == [kind |-> "none", text |-> ""]
UserPanics == {StringPanic}

ArtifactNames == {"extra"}
ArtifactValue(name) == IF name = "extra" THEN "!" ELSE "john"

\* fmt.Errorf("%v", p).Error(): a runtime.Error prints with its prefix.
ErrorString(p) ==
    IF p.kind = "runtime"
    THEN "runtime error: invalid memory address or nil pointer dereference"
    ELSE p.text

\* --------------------------------------- the underlying http.ResponseWriter

NoHeader == [cid |-> "", ctype |-> "", clen |-> -1]

\* What httptest.NewRecorder() hands to the sink: nothing sent, no header set.
\* header is the live header map, sent the copy that went out with the status
\* line, whCalls the codes WriteHeader was called with.
NewRecorder ==
    [wroteHeader |-> FALSE, code |-> 0, header |-> NoHeader, sent |-> NoHeader,
     body |-> <<>>, whCalls |-> <<>>]

\* The status line goes out once; a later WriteHeader is dropped.
RecorderWriteHeader(rec, code) ==
    IF rec.wroteHeader
    THEN [rec EXCEPT !.whCalls = Append(@, code)]
    ELSE [rec EXCEPT !.wroteHeader = TRUE, !.code = code, !.sent = rec.header,
                     !.whCalls = Append(@, code)]

\* A Write before any WriteHeader sends the status line 200 with the header
\* map as it stands, then the bytes.
RecorderWrite(rec, chunk) ==
    LET started == IF rec.wroteHeader
                   THEN rec
                   ELSE [rec EXCEPT !.wroteHeader = TRUE, !.code = StatusOK,
                                    !.sent = rec.header]
    IN  [started EXCEPT !.body = Append(@, chunk)]

\* ------------------------------------------------- MeasuredResponseWriter

\* A sink state s is the pair [w, mrw]: the underlying writer and the
\* MeasuredResponseWriter's own fields.
NewMeasuredResponseWriter ==
    [statusCode |-> 0, volume |-> 0, hasWrittenHeaders |-> FALSE]


Write_LastOnly(s, chunk) ==
    [w |-> RecorderWrite(s.w, chunk),
     mrw |-> [s.mrw EXCEPT !.volume = chunk.n]]

Write(s, chunk) ==
    [w |-> RecorderWrite(s.w, chunk),
     mrw |-> [s.mrw EXCEPT !.volume = @ + chunk.n]]


WriteHeader_EveryCall(s, statusCode) ==
    [w |-> RecorderWriteHeader(s.w, statusCode),
     mrw |-> [s.mrw EXCEPT !.statusCode = statusCode,
                           !.hasWrittenHeaders = TRUE]]

WriteHeader(s, statusCode) ==
    IF s.mrw.hasWrittenHeaders
    THEN s
    ELSE [w |-> RecorderWriteHeader(s.w, statusCode),
          mrw |-> [s.mrw EXCEPT !.statusCode = statusCode,
                                !.hasWrittenHeaders = TRUE]]


StatusCode_Field(m) == m.statusCode

StatusCode(m) == IF m.statusCode = 0 THEN StatusOK ELSE m.statusCode

HasWrittenHeaders(m) == m.hasWrittenHeaders

Volume(m) == m.volume

\* Duration(): the elapsed milliseconds, floored to zero under the threshold.
Duration(elapsed) == IF elapsed < DurationFloorMs THEN 0 ELSE elapsed

\* Header().Set(name, value) on the live header map.
SetHeader(s, name, value) == [s EXCEPT !.w.header[name] = value]

\* ------------------------------------------------------------ util.go

RECURSIVE ScaleBytes(_, _, _)
\* The loop of ByteSizeToFriendlyString: num/den is floatLength.
ScaleBytes(num, den, prefixIndex) ==
    IF num >= 1024 * den /\ prefixIndex < 4
    THEN ScaleBytes(num, den * 1024, prefixIndex + 1)
    ELSE [num |-> num, den |-> den, prefixIndex |-> prefixIndex]

\* "%.2f %v": the value in hundredths, rounded, and the unit.
ByteSizeToFriendlyString(length) ==
    LET r == ScaleBytes(length, 1, 0)
        prefixes == <<"B", "kB", "MB", "GB", "TB">>
    IN  [hundredths |-> (2 * 100 * r.num + r.den) \div (2 * r.den),
         unit |-> prefixes[r.prefixIndex + 1]]

\* ---------------------------------------------------- problem envelopes

\* One unit per serialized member: the byte count of a serialized value.
ByteLen(model) ==
    CASE model.kind = "problem" ->
            3 + (IF model.error # "" THEN 1 ELSE 0) + Cardinality(DOMAIN model.specifics)
      [] model.kind = "bytes" -> model.n
      [] OTHER -> 1

\* The text of the error a model's own MarshalJSON returns.
MarshalerError ==
    "json: error calling MarshalJSON for type *web.model: invalid value \"x\""

\* The texts of the model that hold a character a JSON string must escape.
\* (The model's strings are atomic: the texts are listed.)
NeedsEscaping(text) == text \in {MarshalerError}

\* json.Marshal: a channel-typed model cannot be serialized, nor can a model
\* whose MarshalJSON returns an error.  A chunk is a serialized document
\* (json), its byte count (n), and whether every string in it went through
\* JSON escaping (escaped), as all that json.Marshal writes does.
Marshal(model) ==
    CASE model.kind = "unmarshalable" ->
            [err |-> "json: unsupported type: chan int",
             raw |-> [json |-> model, n |-> 0, escaped |-> TRUE]]
      [] model.kind = "failing-marshaler" ->
            [err |-> MarshalerError,
             raw |-> [json |-> model, n |-> 0, escaped |-> TRUE]]
      [] OTHER ->
            [err |-> "", raw |-> [json |-> model, n |-> ByteLen(model),
                                  escaped |-> TRUE]]

getProblemDetailsForMethodNotAllowed(cfg, method, allowedMethods) ==
    [kind |-> "problem",
     type |-> <<cfg.ProblemDetailsTypePrefix, "/http/method-not-allowed">>,
     title |-> "Method Not Allowed",
     detail |-> [fmt |-> "This endpoint does not allow use of the '%v' method.",
                 args |-> <<method>>],
     error |-> "",
     specifics |-> [methodUsed |-> method, allowedMethods |-> allowedMethods]]

getProblemDetailsForNotFound(cfg, subjectType, subject) ==
    [kind |-> "problem",
     type |-> <<cfg.ProblemDetailsTypePrefix, "/http/not-found">>,
     title |-> "Not Found",
     detail |-> [fmt |-> "The %v '%v' was not found.", args |-> <<subjectType, subject>>],
     error |-> "",
     specifics |-> [subjectType |-> subjectType, subject |-> subject]]

\* err is the error's text, "" for a nil error.
getProblemDetailsForInternalServerError(cfg, err) ==
    [kind |-> "problem",
     type |-> <<cfg.ProblemDetailsTypePrefix, "/http/internal-server-error">>,
     title |-> "Internal Server Error",
     detail |-> [fmt |-> "An internal server error prevented the request from completing.",
                 args |-> <<>>],
     error |-> IF cfg.DebuggingEnabled /\ err # "" THEN err ELSE "",
     specifics |-> <<>>]

\* The envelope as fmt.Sprintf writes it: the prefix and the error's text are
\* put between the quotes as they are.
getRawProblemDetailsForSerializationError(cfg, err) ==
    LET text == [kind |-> "problem",
                 type |-> <<cfg.ProblemDetailsTypePrefix, "/http/internal-server-error">>,
                 title |-> "Internal Server Error",
                 detail |-> [fmt |-> "Serialization of the response model failed.",
                             args |-> <<>>],
                 error |-> IF cfg.DebuggingEnabled /\ err # "" THEN err ELSE "",
                 specifics |-> <<>>]
    IN  [json |-> text, n |-> ByteLen(text), escaped |-> FALSE]

\* ---------------------------------------------------------------- Context

NewContext(correlationID) ==
    [correlationID |-> correlationID, middlewareArtifacts |-> <<>>]

\* nil ("") for a name never set.
GetMiddlewareArtifact(c, name) ==
    IF name \in DOMAIN c.middlewareArtifacts THEN c.middlewareArtifacts[name] ELSE ""


SetMiddlewareArtifact_Replace(c, name, value) ==
    [c EXCEPT !.middlewareArtifacts = [n \in {name} |-> value]]

SetMiddlewareArtifact(c, name, value) ==
    [c EXCEPT !.middlewareArtifacts =
        [n \in DOMAIN @ \cup {name} |-> IF n = name THEN value ELSE @[n]]]

Respond(s, c, code) ==
    WriteHeader(SetHeader(s, "cid", c.correlationID), code)


RespondWithJSON_BodyFirst(s, c, cfg, code, model) ==
    LET m == Marshal(model)
        rawJSON == IF m.err # ""
                   THEN getRawProblemDetailsForSerializationError(cfg, m.err)
                   ELSE m.raw
        code2 == IF m.err # "" THEN StatusInternalServerError ELSE code
        s1 == SetHeader(s, "ctype", "application/json")
        s2 == SetHeader(s1, "clen", rawJSON.n)
    IN  Respond(Write(s2, rawJSON), c, code2)

RespondWithJSON(s, c, cfg, code, model) ==
    LET m == Marshal(model)
        rawJSON == IF m.err # ""
                   THEN getRawProblemDetailsForSerializationError(cfg, m.err)
                   ELSE m.raw
        code2 == IF m.err # "" THEN StatusInternalServerError ELSE code
        s1 == SetHeader(s, "ctype", "application/json")
        s2 == SetHeader(s1, "clen", rawJSON.n)
    IN  Write(Respond(s2, c, code2), rawJSON)

NotFound(s, c, cfg, subjectType, subject) ==
    RespondWithJSON(s, c, cfg, StatusNotFound,
                    getProblemDetailsForNotFound(cfg, subjectType, subject))

InternalServerError(s, c, cfg, err) ==
    RespondWithJSON(s, c, cfg, StatusInternalServerError,
                    getProblemDetailsForInternalServerError(cfg, err))


\* ctx.c.Resolve: the text of the container's error, "" when every target
\* resolves.
ResolverMissing == "the type io.Writer does not have a resolver in this container"
ResolverFailed == "the resolver for type web.testInterface returned an error"
ResolveOutcomes == {"", ResolverMissing, ResolverFailed}

Resolve_Silent(s, c, cfg, err) ==
    IF err # "" THEN [ok |-> FALSE, s |-> s] ELSE [ok |-> TRUE, s |-> s]

\* Resolve: [ok, s], s the sink after the call.
Resolve(s, c, cfg, err) ==
    IF err # ""
    THEN [ok |-> FALSE, s |-> InternalServerError(s, c, cfg, err)]
    ELSE [ok |-> TRUE, s |-> s]

\* The boolean AssertMethod returns.
MethodAllowed(method, allowedMethods) ==
    \E i \in 1..Len(allowedMethods) : ToUpper(method) = ToUpper(allowedMethods[i])


AssertMethod_Unanswered(s, c, cfg, method, allowedMethods) ==
    [ok |-> MethodAllowed(method, allowedMethods), s |-> s]

\* AssertMethod: [ok, s], s the sink after the call.
AssertMethod(s, c, cfg, method, allowedMethods) ==
    IF MethodAllowed(method, allowedMethods)
    THEN [ok |-> TRUE, s |-> s]
    ELSE [ok |-> FALSE,
          s |-> RespondWithJSON(s, c, cfg, StatusMethodNotAllowed,
                    getProblemDetailsForMethodNotAllowed(cfg, method, allowedMethods))]


StatusBadRequest == 400
StatusLengthRequired == 411
StatusRequestEntityTooLarge == 413
StatusUnsupportedMediaType == 415
StatusUnprocessableEntity == 422

getProblemDetailsForUnsupportedMediaType(cfg, providedContentType, allowedContentTypes) ==
    [kind |-> "problem",
     type |-> <<cfg.ProblemDetailsTypePrefix, "/http/unsupported-media-type">>,
     title |-> "Unsupported Media Type",
     detail |-> [fmt |-> "The Content-Type '%v' is not supported by this endpoint.",
                 args |-> <<providedContentType>>],
     error |-> "",
     specifics |-> [providedContentType |-> providedContentType,
                    allowedContentTypes |-> allowedContentTypes]]

getProblemDetailsForRequestEntityTooLarge(cfg, contentLength, max) ==
    [kind |-> "problem",
     type |-> <<cfg.ProblemDetailsTypePrefix, "/http/request-entity-too-large">>,
     title |-> "Request Entity Too Large",
     detail |-> [fmt |-> "The provided request entity of length %v (%v bytes) exceeds the maximum of %v (%v bytes) on this endpoint.",
                 args |-> <<ByteSizeToFriendlyString(contentLength), contentLength,
                            ByteSizeToFriendlyString(max), max>>],
     error |-> "",
     specifics |-> [contentLength |-> contentLength,
                    maximumContentLength |-> max]]

getProblemDetailsForLengthRequired(cfg) ==
    [kind |-> "problem",
     type |-> <<cfg.ProblemDetailsTypePrefix, "/http/length-required">>,
     title |-> "Length Required",
     detail |-> [fmt |-> "This endpoint requires that the Content-Length header be set to a positive, non-zero value.",
                 args |-> <<>>],
     error |-> "",
     specifics |-> <<>>]


getProblemDetailsForDeserialization_Ungated(cfg, err) ==
    [kind |-> "problem",
     type |-> <<cfg.ProblemDetailsTypePrefix, "/json/deserialization">>,
     title |-> "Deserialization Error",
     detail |-> [fmt |-> "The provided request body could not be meaningfully deserialized.  It appears to be invalid.",
                 args |-> <<>>],
     error |-> err,
     specifics |-> <<>>]

\* err is the decoder's error text.
getProblemDetailsForDeserialization(cfg, err) ==
    [kind |-> "problem",
     type |-> <<cfg.ProblemDetailsTypePrefix, "/json/deserialization">>,
     title |-> "Deserialization Error",
     detail |-> [fmt |-> "The provided request body could not be meaningfully deserialized.  It appears to be invalid.",
                 args |-> <<>>],
     error |-> IF cfg.DebuggingEnabled THEN err ELSE "",
     specifics |-> <<>>]

getProblemDetailsForUnprocessableEntity(cfg, field, err) ==
    [kind |-> "problem",
     type |-> <<cfg.ProblemDetailsTypePrefix, "/http/unprocessable-entity">>,
     title |-> "Unprocessable Entity",
     detail |-> [fmt |-> "The provided request body was understood but contained some invalid values.",
                 args |-> <<>>],
     error |-> "",
     specifics |-> [field |-> field, error |-> err]]

ContentTypeAllowed_NoTrim(contentType, allowedContentTypes) ==
    \E i \in 1..Len(allowedContentTypes) :
       ToUpper(contentType) = ToUpper(allowedContentTypes[i])

\* The boolean AssertContentType returns.
ContentTypeAllowed(contentType, allowedContentTypes) ==
    LET contentTypeUppercase == TrimSpace(ToUpper(contentType))
    IN  \E i \in 1..Len(allowedContentTypes) :
           contentTypeUppercase = ToUpper(allowedContentTypes[i])

\* AssertContentType: [ok, s], s the sink after the call.
AssertContentType(s, c, cfg, contentType, allowedContentTypes) ==
    IF ContentTypeAllowed(contentType, allowedContentTypes)
    THEN [ok |-> TRUE, s |-> s]
    ELSE [ok |-> FALSE,
          s |-> RespondWithJSON(s, c, cfg, StatusUnsupportedMediaType,
                    getProblemDetailsForUnsupportedMediaType(
                        cfg, contentType, allowedContentTypes))]

AssertContentLength_SwappedSpecifics(s, c, cfg, contentLength, max) ==
    IF contentLength > max
    THEN [ok |-> FALSE,
          s |-> RespondWithJSON(s, c, cfg, StatusRequestEntityTooLarge,
                    getProblemDetailsForRequestEntityTooLarge(cfg, max, max))]
    ELSE [ok |-> contentLength > 0,
          s |-> IF contentLength > 0 THEN s
                ELSE RespondWithJSON(s, c, cfg, StatusLengthRequired,
                         getProblemDetailsForLengthRequired(cfg))]

\* AssertContentLength: [ok, s], s the sink after the call.
AssertContentLength(s, c, cfg, contentLength, max) ==
    IF contentLength > max
    THEN [ok |-> FALSE,
          s |-> RespondWithJSON(s, c, cfg, StatusRequestEntityTooLarge,
                    getProblemDetailsForRequestEntityTooLarge(
                        cfg, contentLength, max))]
    ELSE IF contentLength <= 0
    THEN [ok |-> FALSE,
          s |-> RespondWithJSON(s, c, cfg, StatusLengthRequired,
                    getProblemDetailsForLengthRequired(cfg))]
    ELSE [ok |-> TRUE, s |-> s]


ApplicationJSON == <<"a", "p", "p", "l", "i", "c", "a", "t", "i", "o", "n", "/",
                     "j", "s", "o", "n">>

\* json.NewDecoder(ctx.r.Body).Decode(model) on the bodies a request may
\* carry: the error's text ("" for nil) and the model as decoded.
Decode(body) ==
    CASE body = "valid" ->
            [err |-> "", model |-> [kind |-> "model", message |-> "Hello, World!"]]
      [] body = "invalid" ->
            [err |-> "", model |-> [kind |-> "model", message |-> "invalid"]]
      [] body = "truncated" ->
            [err |-> "unexpected EOF", model |-> [kind |-> "model", message |-> ""]]
      [] OTHER ->
            [err |-> "EOF", model |-> [kind |-> "model", message |-> ""]]

\* testRequestModel.Purify: the offending field and the error's text.
Purify(model) ==
    IF model.message = "invalid"
    THEN [field |-> "message", err |-> "cannot be the string 'invalid'"]
    ELSE [field |-> "", err |-> ""]

FromJSON_LengthFirst(s, c, cfg, req) ==
    LET a == AssertContentLength(s, c, cfg, req.ContentLength,
                                 cfg.JSONContentLengthLimit)
        b == AssertContentType(s, c, cfg, req.ContentType, <<ApplicationJSON>>)
        d == Decode(req.Body)
        p == Purify(d.model)
        none == [kind |-> "model", message |-> ""]
    IN  IF ~a.ok
        THEN [ok |-> FALSE, s |-> a.s, bodyRead |-> FALSE, purified |-> FALSE,
              model |-> none]
        ELSE IF ~b.ok
        THEN [ok |-> FALSE, s |-> b.s, bodyRead |-> FALSE, purified |-> FALSE,
              model |-> none]
        ELSE IF d.err # ""
        THEN [ok |-> FALSE,
              s |-> RespondWithJSON(s, c, cfg, StatusBadRequest,
                        getProblemDetailsForDeserialization(cfg, d.err)),
              bodyRead |-> TRUE, purified |-> FALSE, model |-> d.model]
        ELSE IF p.err # ""
        THEN [ok |-> FALSE,
              s |-> RespondWithJSON(s, c, cfg, StatusUnprocessableEntity,
                        getProblemDetailsForUnprocessableEntity(cfg, p.field, p.err)),
              bodyRead |-> TRUE, purified |-> TRUE, model |-> d.model]
        ELSE [ok |-> TRUE, s |-> s, bodyRead |-> TRUE, purified |-> TRUE,
              model |-> d.model]

\* FromJSON: what it returns (ok), the sink after the call, whether the
\* body was read and Purify called, and the model as the call left it.
FromJSON(s, c, cfg, req) ==
    LET a == AssertContentType(s, c, cfg, req.ContentType, <<ApplicationJSON>>)
        b == AssertContentLength(s, c, cfg, req.ContentLength,
                                 cfg.JSONContentLengthLimit)
        d == Decode(req.Body)
        p == Purify(d.model)
        none == [kind |-> "model", message |-> ""]
    IN  IF ~a.ok
        THEN [ok |-> FALSE, s |-> a.s, bodyRead |-> FALSE, purified |-> FALSE,
              model |-> none]
        ELSE IF ~b.ok
        THEN [ok |-> FALSE, s |-> b.s, bodyRead |-> FALSE, purified |-> FALSE,
              model |-> none]
        ELSE IF d.err # ""
        THEN [ok |-> FALSE,
              s |-> RespondWithJSON(s, c, cfg, StatusBadRequest,
                        getProblemDetailsForDeserialization(cfg, d.err)),
              bodyRead |-> TRUE, purified |-> FALSE, model |-> d.model]
        ELSE IF p.err # ""
        THEN [ok |-> FALSE,
              s |-> RespondWithJSON(s, c, cfg, StatusUnprocessableEntity,
                        getProblemDetailsForUnprocessableEntity(cfg, p.field, p.err)),
              bodyRead |-> TRUE, purified |-> TRUE, model |-> d.model]
        ELSE [ok |-> TRUE, s |-> s, bodyRead |-> TRUE, purified |-> TRUE,
              model |-> d.model]

\* ------------------------------------------------------------------ state

VARIABLES
    config,        \* *Config, shared by the builder and every request
    routesByPath,  \* HandlerBuilder.routesByPath: purified path -> routes
    hasBeenBuilt,  \* HandlerBuilder.hasBeenBuilt
    fault,         \* assertNotAlreadyBuilt has panicked: the program is gone
    mx,            \* the router Build returns: the compiled paths, in the
                   \* order Build registered them
    pc,            \* where the compiled handler is for the current request
    r,             \* the request: method, target, URL.Path, Content-Type,
                   \* Content-Length and body
    ctx,           \* the request's Context
    w,             \* the underlying http.ResponseWriter
    mrw,           \* the request's MeasuredResponseWriter
    route,         \* the route the per-path handler selected
    invoked,       \* the middleware and Handle invoked so far, in order
    returned,      \* what the middleware invoked so far have returned
    writes,        \* body chunks the route's own code has written
    panicValue,    \* the value of the panic in flight, NoPanic if none
    propagated,    \* the panic left the compiled handler
    logged,        \* the lines passed to logger.Printf for this request
    lastSet,       \* per artifact name, the value last passed to
                   \* SetMiddlewareArtifact in this request and the number
                   \* of units invoked by then
    builderCalls,  \* calls made to Use and Build
    call,          \* the operation last called on the Context or the sink
                   \* directly, with its arguments and what it returned
    other          \* the request of the goroutine that is not running: what
                   \* pc .. lastSet are for the one that is

vars == <<config, routesByPath, hasBeenBuilt, fault, mx, pc, r, ctx, w, mrw, route,
          invoked, returned, writes, panicValue, propagated, logged, lastSet,
          builderCalls, call, other>>

builderVars == <<config, routesByPath, hasBeenBuilt, fault, mx, builderCalls>>

requestVars == <<pc, r, ctx, w, mrw, route, invoked, returned, writes, panicValue,
                 propagated, logged, lastSet>>

Configs ==
    {[ProblemDetailsTypePrefix |-> "https://testi.ng", DebuggingEnabled |-> d,
      JSONContentLengthLimit |-> 1048576] : d \in BOOLEAN}

\* httptest.NewRequest(method, target, nil): no Content-Type, no body.
NewRequest(method, target) ==
    [Method |-> method, RequestURI |-> target, Path |-> URLPath(target),
     ContentType |-> <<>>, ContentLength |-> 0, Body |-> "empty"]

NoRequest == NewRequest(<<>>, <<>>)

\* n counts the calls made so far.
NoCall == [op |-> "none", n |-> 0]

\* A goroutine of the server that has not been given a request.
NoTask ==
    [pc |-> "idle", r |-> NoRequest, ctx |-> NewContext(""), w |-> NewRecorder,
     mrw |-> NewMeasuredResponseWriter, route |-> NoRoute, invoked |-> <<>>,
     returned |-> <<>>, writes |-> 0, panicValue |-> NoPanic,
     propagated |-> FALSE, logged |-> <<>>, lastSet |-> <<>>]

Init ==
    /\ other = NoTask
    /\ config \in Configs
    /\ routesByPath = <<>>
    /\ hasBeenBuilt = FALSE
    /\ fault = FALSE
    /\ mx = <<>>
    /\ pc = "idle"
    /\ r = NoRequest
    /\ ctx = NewContext("")
    /\ w = NewRecorder
    /\ mrw = NewMeasuredResponseWriter
    /\ route = NoRoute
    /\ invoked = <<>>
    /\ returned = <<>>
    /\ writes = 0
    /\ panicValue = NoPanic
    /\ propagated = FALSE
    /\ logged = <<>>
    /\ lastSet = <<>>
    /\ builderCalls = 0
    /\ call = NoCall

\* ---------------------------------------------------------- HandlerBuilder

\* Mutant: the guard is missing.
assertNotAlreadyBuilt_Missing(built) == FALSE

\* TRUE when assertNotAlreadyBuilt panics.
assertNotAlreadyBuilt(built) == built

RECURSIVE SumLen(_, _)
SumLen(f, keys) ==
    IF keys = {} THEN 0
    ELSE LET k == CHOOSE x \in keys : TRUE IN Len(f[k]) + SumLen(f, keys \ {k})

NumRoutes == SumLen(routesByPath, DOMAIN routesByPath)

\* b.routesByPath[path] = append(b.routesByPath[path], route)
appendRoute(byPath, rt) ==
    LET path == purifyPath(rt.path)
        old == IF path \in DOMAIN byPath THEN byPath[path] ELSE <<>>
    IN  [q \in DOMAIN byPath \cup {path} |->
            IF q = path THEN Append(old, rt) ELSE byPath[q]]

Use(rt) ==
    /\ ~fault
    /\ pc \in {"idle", "done"}
    /\ hasBeenBuilt \/ NumRoutes < MaxUses
    /\ IF assertNotAlreadyBuilt(hasBeenBuilt)
       THEN /\ fault' = TRUE
            /\ UNCHANGED <<routesByPath, hasBeenBuilt, mx>>
       ELSE /\ routesByPath' = appendRoute(routesByPath, rt)
            /\ UNCHANGED <<fault, hasBeenBuilt, mx>>
    /\ builderCalls' = builderCalls + 1
    /\ UNCHANGED <<config, requestVars, call, other>>

\* Mutant: a method keeps the route registered first for it.
buildHandlerForPath_FirstWins(path, routes) ==
    [path |-> path,
     allowedMethods |-> [i \in 1..Len(routes) |-> routes[i].method],
     handlerByMethod |->
        [m \in {routes[i].method : i \in 1..Len(routes)} |->
            LET first == CHOOSE i \in 1..Len(routes) :
                            /\ routes[i].method = m
                            /\ \A j \in 1..Len(routes) : routes[j].method = m => i <= j
            IN  routes[first]]]

\* Mutant: allowedMethods is overwritten, not appended to.
buildHandlerForPath_Overwrite(path, routes) ==
    [path |-> path,
     allowedMethods |-> <<routes[Len(routes)].method>>,
     handlerByMethod |->
        [m \in {routes[i].method : i \in 1..Len(routes)} |->
            LET last == CHOOSE i \in 1..Len(routes) :
                            /\ routes[i].method = m
                            /\ \A j \in 1..Len(routes) : routes[j].method = m => j <= i
            IN  routes[last]]]

\* The closure buildHandlerForPath returns, as data: the methods in
\* registration order and, per method, the route registered last for it.
buildHandlerForPath(path, routes) ==
    [path |-> path,
     allowedMethods |-> [i \in 1..Len(routes) |-> routes[i].method],
     handlerByMethod |->
        [m \in {routes[i].method : i \in 1..Len(routes)} |->
            LET last == CHOOSE i \in 1..Len(routes) :
                            /\ routes[i].method = m
                            /\ \A j \in 1..Len(routes) : routes[j].method = m => j <= i
            IN  routes[last]]]

\* The orders in which a range over a map of these keys can visit them.
RangeOrders(keys) ==
    {o \in [1..Cardinality(keys) -> keys] :
        \A i, j \in 1..Cardinality(keys) : o[i] = o[j] => i = j}

Build ==
    /\ ~fault
    /\ pc \in {"idle", "done"}
    /\ IF assertNotAlreadyBuilt(hasBeenBuilt)
       THEN /\ fault' = TRUE
            /\ UNCHANGED <<routesByPath, hasBeenBuilt, mx>>
       ELSE /\ hasBeenBuilt' = TRUE
            /\ \E o \in RangeOrders(DOMAIN routesByPath) :
                  mx' = [i \in 1..Len(o) |-> buildHandlerForPath(o[i], routesByPath[o[i]])]
            /\ UNCHANGED <<fault, routesByPath>>
    /\ builderCalls' = builderCalls + 1
    /\ UNCHANGED <<config, requestVars, call, other>>

\* ------------------------------------------------------------- the router

\* A pattern matches a path of the same shape: a variable segment matches
\* any segment name, every other character itself.
MuxMatches(pattern, path) ==
    /\ Len(pattern) = Len(path)
    /\ \A i \in 1..Len(path) :
          \/ pattern[i] = path[i]
          \/ pattern[i] = "{v}" /\ path[i] # "/"

\* The first registered path that matches, 0 for the catch-all.
MuxSelect(router, path) ==
    IF \E i \in 1..Len(router) : MuxMatches(router[i].path, path)
    THEN CHOOSE i \in 1..Len(router) :
            /\ MuxMatches(router[i].path, path)
            /\ \A j \in 1..(i - 1) : ~MuxMatches(router[j].path, path)
    ELSE 0

\* ----------------------------------------------------- the compiled handler

\* id.New(): an identifier that the request of the other goroutine does
\* not carry.
NewID == IF other.ctx.correlationID = "5f2c9a" THEN "83b1d0" ELSE "5f2c9a"

\* Mutant: shouldContinue is ignored.
buildHandlerForRoute_IgnoreResult(rt, done, shouldContinue) ==
    IF done < Len(rt.middleware)
    THEN [pc |-> "mw", unit |-> rt.middleware[done + 1]]
    ELSE [pc |-> "handler", unit |-> "Handle"]

\* Mutant: the middleware are taken from the end of the list.
buildHandlerForRoute_Reversed(rt, done, shouldContinue) ==
    IF ~shouldContinue
    THEN [pc |-> "deferred", unit |-> ""]
    ELSE IF done < Len(rt.middleware)
         THEN [pc |-> "mw", unit |-> rt.middleware[Len(rt.middleware) - done]]
         ELSE [pc |-> "handler", unit |-> "Handle"]

\* The loop of buildHandlerForRoute after `done` middleware have returned,
\* the last of them shouldContinue: the unit invoked next, or the return.
buildHandlerForRoute(rt, done, shouldContinue) ==
    IF ~shouldContinue
    THEN [pc |-> "deferred", unit |-> ""]
    ELSE IF done < Len(rt.middleware)
         THEN [pc |-> "mw", unit |-> rt.middleware[done + 1]]
         ELSE [pc |-> "handler", unit |-> "Handle"]

\* The closure buildHandlerForPath returns, run up to the first call into the
\* route's code.  A method that passes AssertMethod and has no entry in
\* handlerByMethod calls a nil function.
pathHandler(entry, s, c, cfg, req) ==
    LET a == AssertMethod(s, c, cfg, req.Method, entry.allowedMethods)
    IN  IF ~a.ok
        THEN [s |-> a.s, pc |-> "deferred", route |-> NoRoute, invoked |-> <<>>,
              panicValue |-> NoPanic]
        ELSE IF req.Method \notin DOMAIN entry.handlerByMethod
             THEN [s |-> a.s, pc |-> "deferred", route |-> NoRoute, invoked |-> <<>>,
                   panicValue |-> NilFuncPanic]
             ELSE LET rt == entry.handlerByMethod[req.Method]
                      n == buildHandlerForRoute(rt, 0, TRUE)
                  IN  [s |-> a.s, pc |-> n.pc, route |-> rt, invoked |-> <<n.unit>>,
                       panicValue |-> NoPanic]


notFoundHandler_WithQuery(s, c, cfg, req) ==
    [s |-> NotFound(s, c, cfg, <<"p", "a", "t", "h">>, req.RequestURI),
     pc |-> "deferred", route |-> NoRoute, invoked |-> <<>>,
     panicValue |-> NoPanic]

\* The catch-all Build registers: ctx.NotFound("path", ctx.r.URL.Path).
notFoundHandler(s, c, cfg, req) ==
    [s |-> NotFound(s, c, cfg, <<"p", "a", "t", "h">>, req.Path), pc |-> "deferred",
     route |-> NoRoute, invoked |-> <<>>, panicValue |-> NoPanic]

\* The transport calls the compiled handler: the sink and the context are
\* made, the router picks the per-path handler, which runs up to the first
\* call into the route's code.
Serve(method, target) ==
    /\ ~fault
    /\ hasBeenBuilt
    /\ pc \in {"idle", "done"}
    /\ LET req == NewRequest(method, target)
           c == NewContext(NewID)
           s0 == [w |-> NewRecorder, mrw |-> NewMeasuredResponseWriter]
           k == MuxSelect(mx, req.Path)
           out == IF k = 0
                  THEN notFoundHandler(s0, c, config, req)
                  ELSE pathHandler(mx[k], s0, c, config, req)
       IN  /\ r' = req
           /\ ctx' = c
           /\ w' = out.s.w
           /\ mrw' = out.s.mrw
           /\ pc' = out.pc
           /\ route' = out.route
           /\ invoked' = out.invoked
           /\ panicValue' = out.panicValue
    /\ returned' = <<>>
    /\ writes' = 0
    /\ propagated' = FALSE
    /\ logged' = <<>>
    /\ lastSet' = <<>>
    /\ UNCHANGED <<builderVars, call, other>>

Running == pc \in {"mw", "handler"}

\* What the route's code serializes.
UserModels == {[kind |-> "model", message |-> "hello world!"], [kind |-> "unmarshalable"]}

\* What the route's code writes to ctx.ResponseWriter() directly.
UserBytes == [json |-> [kind |-> "bytes", n |-> 3], n |-> 3, escaped |-> FALSE]

\* A middleware or the handler calls ctx.Respond(code).
UserRespond(code) ==
    /\ Running
    /\ LET s == Respond([w |-> w, mrw |-> mrw], ctx, code)
       IN  w' = s.w /\ mrw' = s.mrw
    /\ UNCHANGED <<builderVars, call, other, pc, r, ctx, route, invoked, returned, writes,
                   panicValue, propagated, logged, lastSet>>

\* A middleware or the handler calls ctx.RespondWithJSON(code, model).
UserRespondWithJSON(code, model) ==
    /\ Running
    /\ writes < MaxWrites
    /\ LET s == RespondWithJSON([w |-> w, mrw |-> mrw], ctx, config, code, model)
       IN  w' = s.w /\ mrw' = s.mrw
    /\ writes' = writes + 1
    /\ UNCHANGED <<builderVars, call, other, pc, r, ctx, route, invoked, returned,
                   panicValue, propagated, logged, lastSet>>

\* A middleware or the handler calls ctx.ResponseWriter().Write(bytes).
UserWrite ==
    /\ Running
    /\ writes < MaxWrites
    /\ LET s == Write([w |-> w, mrw |-> mrw], UserBytes)
       IN  w' = s.w /\ mrw' = s.mrw
    /\ writes' = writes + 1
    /\ UNCHANGED <<builderVars, call, other, pc, r, ctx, route, invoked, returned,
                   panicValue, propagated, logged, lastSet>>

\* Mutant: the artifact map is one map shared by the requests in flight.
UserSetArtifact_Shared(name) ==
    /\ Running
    /\ ctx' = SetMiddlewareArtifact(ctx, name, ArtifactValue(name))
    /\ other' = [other EXCEPT
                    !.ctx = SetMiddlewareArtifact(other.ctx, name, ArtifactValue(name))]
    /\ lastSet' = [n \in DOMAIN lastSet \cup {name} |->
                      IF n = name
                      THEN [value |-> ArtifactValue(name), at |-> Len(invoked)]
                      ELSE lastSet[n]]
    /\ UNCHANGED <<builderVars, call, pc, r, w, mrw, route, invoked, returned, writes,
                   panicValue, propagated, logged>>

\* A middleware or the handler calls ctx.SetMiddlewareArtifact(name, value).
UserSetArtifact(name) ==
    /\ Running
    /\ ctx' = SetMiddlewareArtifact(ctx, name, ArtifactValue(name))
    /\ lastSet' = [n \in DOMAIN lastSet \cup {name} |->
                      IF n = name
                      THEN [value |-> ArtifactValue(name), at |-> Len(invoked)]
                      ELSE lastSet[n]]
    /\ UNCHANGED <<builderVars, call, other, pc, r, w, mrw, route, invoked, returned, writes,
                   panicValue, propagated, logged>>

\* The middleware running returns shouldContinue.
MiddlewareReturn(shouldContinue) ==
    /\ pc = "mw"
    /\ LET n == buildHandlerForRoute(route, Len(invoked), shouldContinue)
       IN  /\ pc' = n.pc
           /\ invoked' = IF n.pc = "deferred" THEN invoked ELSE Append(invoked, n.unit)
    /\ returned' = Append(returned, shouldContinue)
    /\ UNCHANGED <<builderVars, call, other, r, ctx, w, mrw, route, writes, panicValue,
                   propagated, logged, lastSet>>

\* route.Handle returns.
HandleReturn ==
    /\ pc = "handler"
    /\ pc' = "deferred"
    /\ UNCHANGED <<builderVars, call, other, r, ctx, w, mrw, route, invoked, returned, writes,
                   panicValue, propagated, logged, lastSet>>

\* The middleware or handler running panics with value p.
Panic(p) ==
    /\ Running
    /\ panicValue' = p
    /\ pc' = "deferred"
    /\ UNCHANGED <<builderVars, call, other, r, ctx, w, mrw, route, invoked, returned, writes,
                   propagated, logged, lastSet>>

\* Mutant: the test of HasWrittenHeaders is inverted.
recoverBoundary_Inverted(p, hasWrittenHeaders) ==
    [recovered |-> p.kind # "none",
     respond |-> p.kind # "none" /\ hasWrittenHeaders]

\* Mutant: HasWrittenHeaders is tested first, so that recover() is not
\* called once the headers are written.
recoverBoundary_Swapped(p, hasWrittenHeaders) ==
    [recovered |-> ~hasWrittenHeaders /\ p.kind # "none",
     respond |-> ~hasWrittenHeaders /\ p.kind # "none"]

\* Mutant: a response is forced whenever none has been written.
recoverBoundary_Unset(p, hasWrittenHeaders) ==
    [recovered |-> p.kind # "none",
     respond |-> ~hasWrittenHeaders]

\* `p := recover(); p != nil && !mrw.HasWrittenHeaders()`: recover() is
\* called first, so a panic in flight always stops here.
recoverBoundary(p, hasWrittenHeaders) ==
    [recovered |-> p.kind # "none",
     respond |-> p.kind # "none" /\ ~hasWrittenHeaders]

\* The status the access-log line is formatted with.
logStatus(m) == m.statusCode

ElapsedMs == {3, 7}

\* Mutant: the access-log line follows the call of the handler instead of
\* being deferred, so a panic skips it.
Deferred_LogNotDeferred(elapsed) ==
    /\ pc = "deferred"
    /\ LET b == recoverBoundary(panicValue, HasWrittenHeaders(mrw))
           s0 == [w |-> w, mrw |-> mrw]
           s == IF b.respond
                THEN InternalServerError(s0, ctx, config, ErrorString(panicValue))
                ELSE s0
       IN  /\ w' = s.w
           /\ mrw' = s.mrw
           /\ propagated' = (panicValue.kind # "none" /\ ~b.recovered)
           /\ logged' = IF panicValue.kind # "none"
                        THEN logged
                        ELSE Append(logged,
                                    [status |-> logStatus(s.mrw),
                                     duration |-> Duration(elapsed),
                                     size |-> ByteSizeToFriendlyString(s.mrw.volume),
                                     path |-> r.Path])
    /\ pc' = "done"
    /\ UNCHANGED <<builderVars, call, other, r, ctx, route, invoked, returned, writes,
                   panicValue, lastSet>>

\* The deferred function of the compiled handler: the recovery boundary,
\* then the access-log line.
Deferred(elapsed) ==
    /\ pc = "deferred"
    /\ LET b == recoverBoundary(panicValue, HasWrittenHeaders(mrw))
           s0 == [w |-> w, mrw |-> mrw]
           s == IF b.respond
                THEN InternalServerError(s0, ctx, config, ErrorString(panicValue))
                ELSE s0
       IN  /\ w' = s.w
           /\ mrw' = s.mrw
           /\ propagated' = (panicValue.kind # "none" /\ ~b.recovered)
           /\ logged' = Append(logged,
                               [status |-> logStatus(s.mrw),
                                duration |-> Duration(elapsed),
                                size |-> ByteSizeToFriendlyString(s.mrw.volume),
                                path |-> r.Path])
    /\ pc' = "done"
    /\ UNCHANGED <<builderVars, call, other, r, ctx, route, invoked, returned, writes,
                   panicValue, lastSet>>

Next ==
    \/ \E rt \in Routes : Use(rt)
    \/ Build
    \/ \E method \in RequestMethods, target \in RequestTargets :
          Serve(method, target)
    \/ \E code \in UserCodes : UserRespond(code)
    \/ \E code \in UserCodes, model \in UserModels : UserRespondWithJSON(code, model)
    \/ UserWrite
    \/ \E name \in ArtifactNames : UserSetArtifact(name)
    \/ \E b \in BOOLEAN : MiddlewareReturn(b)
    \/ HandleReturn
    \/ \E p \in UserPanics : Panic(p)
    \/ \E elapsed \in ElapsedMs : Deferred(elapsed)

Spec == Init /\ [][Next]_vars


\* ------------------------------------------- two requests served at once

\* The request of the goroutine that is running.
ThisTask ==
    [pc |-> pc, r |-> r, ctx |-> ctx, w |-> w, mrw |-> mrw, route |-> route,
     invoked |-> invoked, returned |-> returned, writes |-> writes,
     panicValue |-> panicValue, propagated |-> propagated, logged |-> logged,
     lastSet |-> lastSet]

\* The scheduler stops the goroutine that is running and resumes the other.
Switch ==
    /\ hasBeenBuilt
    /\ ~fault
    /\ other # ThisTask
    /\ other' = ThisTask
    /\ pc' = other.pc
    /\ r' = other.r
    /\ ctx' = other.ctx
    /\ w' = other.w
    /\ mrw' = other.mrw
    /\ route' = other.route
    /\ invoked' = other.invoked
    /\ returned' = other.returned
    /\ writes' = other.writes
    /\ panicValue' = other.panicValue
    /\ propagated' = other.propagated
    /\ logged' = other.logged
    /\ lastSet' = other.lastSet
    /\ UNCHANGED <<builderVars, call>>

\* A handler built from routes A and B, handed to a server that runs two
\* goroutines.
InitConcurrent ==
    /\ other = NoTask
    /\ config \in Configs
    /\ routesByPath = appendRoute(appendRoute(<<>>, RouteA), RouteB)
    /\ hasBeenBuilt = TRUE
    /\ fault = FALSE
    /\ mx = <<buildHandlerForPath(<<"/", "a">>, routesByPath[<<"/", "a">>])>>
    /\ pc = "idle"
    /\ r = NoRequest
    /\ ctx = NewContext("")
    /\ w = NewRecorder
    /\ mrw = NewMeasuredResponseWriter
    /\ route = NoRoute
    /\ invoked = <<>>
    /\ returned = <<>>
    /\ writes = 0
    /\ panicValue = NoPanic
    /\ propagated = FALSE
    /\ logged = <<>>
    /\ lastSet = <<>>
    /\ builderCalls = 3
    /\ call = NoCall

NextConcurrent ==
    \/ \E method \in {GET, PUT} : Serve(method, <<"/", "a">>)
    \/ Switch
    \/ \E code \in UserCodes : UserRespond(code)
    \/ \E name \in ArtifactNames : UserSetArtifact(name)
    \/ \E b \in BOOLEAN : MiddlewareReturn(b)
    \/ HandleReturn
    \/ \E elapsed \in ElapsedMs : Deferred(elapsed)

SpecConcurrent == InitConcurrent /\ [][NextConcurrent]_vars

\* ------------------------------------ routes declared twice for one method

\* A second GET route whose path normalizes to RouteA's.
RouteD == [id |-> "D", method |-> GET, path |-> <<"/", "a", " ">>,
           middleware |-> <<"audit">>]

DuplicateRoutes == {RouteA, RouteB, RouteD}

NextDuplicates ==
    \/ \E rt \in DuplicateRoutes : Use(rt)
    \/ Build
    \/ \E method \in {GET, PUT} : Serve(method, <<"/", "a">>)
    \/ \E b \in BOOLEAN : MiddlewareReturn(b)
    \/ HandleReturn
    \/ \E elapsed \in ElapsedMs : Deferred(elapsed)

SpecDuplicates == Init /\ [][NextDuplicates]_vars

\* ------------------------------------- the Context called on a fresh fixture

\* The Content-Type, Content-Length and body a request may arrive with.
MixedCaseJSON == <<" ", "A", "p", "p", "l", "i", "c", "a", "t", "i", "o", "n", "/",
                   "J", "S", "O", "N", " ">>
ImagePNG == <<"i", "m", "a", "g", "e", "/", "p", "n", "g">>
ContentTypes == {<<>>, ApplicationJSON, MixedCaseJSON, ImagePNG}
ContentLengths == {-1, 0, 13, 27, 2097152}
Bodies == {"empty", "valid", "truncated", "invalid"}

FixtureRequests ==
    {[NewRequest(POST, <<"/">>) EXCEPT !.ContentType = contentType,
                                       !.ContentLength = contentLength,
                                       !.Body = body] :
        contentType \in ContentTypes, contentLength \in ContentLengths,
        body \in Bodies}

\* The arguments the assertions are called with.
AllowedContentTypeLists ==
    {<<>>, <<ApplicationJSON>>, <<ImagePNG, ToUpper(ApplicationJSON)>>,
     <<<<" ">> \o ApplicationJSON>>}
MaxContentLengths == {-1, 0, 13, 26, 1048576}

\* SetupContextTestFixture: a recorder, a request and a Context on them.
InitFixture ==
    /\ other = NoTask
    /\ config \in Configs
    /\ routesByPath = <<>>
    /\ hasBeenBuilt = FALSE
    /\ fault = FALSE
    /\ mx = <<>>
    /\ pc = "fixture"
    /\ ctx = NewContext(NewID)
    /\ w = NewRecorder
    /\ mrw = NewMeasuredResponseWriter
    /\ route = NoRoute
    /\ invoked = <<>>
    /\ returned = <<>>
    /\ writes = 0
    /\ panicValue = NoPanic
    /\ propagated = FALSE
    /\ logged = <<>>
    /\ lastSet = <<>>
    /\ builderCalls = 0
    /\ call = NoCall

InitAssert ==
    /\ InitFixture
    /\ r \in FixtureRequests

\* What a call on the fixture leaves alone.
fixtureConst == <<config, routesByPath, hasBeenBuilt, fault, mx, pc, r, ctx, route,
                  invoked, returned, panicValue, propagated, logged, lastSet,
                  builderCalls, other>>

Fresh == pc = "fixture" /\ call.n = 0

CallAssertContentType(allowedContentTypes) ==
    /\ Fresh
    /\ LET out == AssertContentType([w |-> w, mrw |-> mrw], ctx, config,
                                    r.ContentType, allowedContentTypes)
       IN  /\ w' = out.s.w
           /\ mrw' = out.s.mrw
           /\ call' = [op |-> "AssertContentType", n |-> 1, ok |-> out.ok,
                       allowedContentTypes |-> allowedContentTypes]
    /\ UNCHANGED <<fixtureConst, writes>>

CallAssertContentLength(max) ==
    /\ Fresh
    /\ LET out == AssertContentLength([w |-> w, mrw |-> mrw], ctx, config,
                                      r.ContentLength, max)
       IN  /\ w' = out.s.w
           /\ mrw' = out.s.mrw
           /\ call' = [op |-> "AssertContentLength", n |-> 1, ok |-> out.ok,
                       max |-> max]
    /\ UNCHANGED <<fixtureConst, writes>>

CallFromJSON ==
    /\ Fresh
    /\ LET out == FromJSON([w |-> w, mrw |-> mrw], ctx, config, r)
       IN  /\ w' = out.s.w
           /\ mrw' = out.s.mrw
           /\ call' = [op |-> "FromJSON", n |-> 1, ok |-> out.ok,
                       bodyRead |-> out.bodyRead, purified |-> out.purified,
                       model |-> out.model]
    /\ UNCHANGED <<fixtureConst, writes>>


CallResolve(err) ==
    /\ Fresh
    /\ LET out == Resolve([w |-> w, mrw |-> mrw], ctx, config, err)
       IN  /\ w' = out.s.w
           /\ mrw' = out.s.mrw
           /\ call' = [op |-> "Resolve", n |-> 1, ok |-> out.ok, err |-> err]
    /\ UNCHANGED <<fixtureConst, writes>>

CallAssertMethod(allowedMethods) ==
    /\ Fresh
    /\ LET out == AssertMethod([w |-> w, mrw |-> mrw], ctx, config, r.Method,
                               allowedMethods)
       IN  /\ w' = out.s.w
           /\ mrw' = out.s.mrw
           /\ call' = [op |-> "AssertMethod", n |-> 1, ok |-> out.ok,
                       allowedMethods |-> allowedMethods]
    /\ UNCHANGED <<fixtureConst, writes>>

AllowedMethodLists == {<<>>, <<GET>>, <<GET, ToUpper(getLower), PUT>>,
                       <<PUT, <<"p", "o", "s", "t">>>>}

NextAssert ==
    \/ \E allowedContentTypes \in AllowedContentTypeLists :
          CallAssertContentType(allowedContentTypes)
    \/ \E max \in MaxContentLengths : CallAssertContentLength(max)
    \/ CallFromJSON
    \/ \E err \in ResolveOutcomes : CallResolve(err)
    \/ \E allowedMethods \in AllowedMethodLists : CallAssertMethod(allowedMethods)

SpecAssert == InitAssert /\ [][NextAssert]_vars


\* --------------------------- responding operations called one after another

\* Calls made on one fixture.
MaxCalls == 3

\* A request without a body, and two JSON requests whose bodies do not
\* decode.
SinkRequests ==
    {NewRequest(GET, <<"/">>)} \cup
    {[NewRequest(POST, <<"/">>) EXCEPT !.ContentType = ApplicationJSON,
                                       !.ContentLength = 27,
                                       !.Body = body] :
        body \in {"truncated", "empty"}}

InitSink ==
    /\ InitFixture
    /\ r \in SinkRequests

SinkCodes == {StatusCreated, StatusBadRequest}
FixtureModels == UserModels \cup {[kind |-> "failing-marshaler"]}

MoreCalls == pc = "fixture" /\ call.n < MaxCalls

\* ctx.ResponseWriter().WriteHeader(code)
CallWriteHeader(code) ==
    /\ MoreCalls
    /\ LET s == WriteHeader([w |-> w, mrw |-> mrw], code)
       IN  w' = s.w /\ mrw' = s.mrw
    /\ call' = [op |-> "WriteHeader", n |-> call.n + 1, code |-> code]
    /\ UNCHANGED <<fixtureConst, writes>>

\* ctx.ResponseWriter().Write(bytes)
CallWrite ==
    /\ MoreCalls
    /\ LET s == Write([w |-> w, mrw |-> mrw], UserBytes)
       IN  w' = s.w /\ mrw' = s.mrw
    /\ call' = [op |-> "Write", n |-> call.n + 1]
    /\ UNCHANGED <<fixtureConst, writes>>

CallRespond(code) ==
    /\ MoreCalls
    /\ LET s == Respond([w |-> w, mrw |-> mrw], ctx, code)
       IN  w' = s.w /\ mrw' = s.mrw
    /\ call' = [op |-> "Respond", n |-> call.n + 1, code |-> code]
    /\ UNCHANGED <<fixtureConst, writes>>

CallRespondWithJSON(code, model) ==
    /\ MoreCalls
    /\ LET s == RespondWithJSON([w |-> w, mrw |-> mrw], ctx, config, code, model)
       IN  w' = s.w /\ mrw' = s.mrw
    /\ call' = [op |-> "RespondWithJSON", n |-> call.n + 1, code |-> code,
                model |-> model]
    /\ UNCHANGED <<fixtureConst, writes>>


\* The errors the recovery boundary passes on: fmt.Errorf("%v", p).
PanicErrors == {ErrorString(StringPanic), ErrorString(NilFuncPanic)}

CallInternalServerError(err) ==
    /\ MoreCalls
    /\ LET s == InternalServerError([w |-> w, mrw |-> mrw], ctx, config, err)
       IN  w' = s.w /\ mrw' = s.mrw
    /\ call' = [op |-> "InternalServerError", n |-> call.n + 1, err |-> err]
    /\ UNCHANGED <<fixtureConst, writes>>

NextSink ==
    \/ \E code \in SinkCodes : CallWriteHeader(code)
    \/ CallWrite
    \/ \E code \in SinkCodes : CallRespond(code)
    \/ \E code \in SinkCodes, model \in FixtureModels :
          CallRespondWithJSON(code, model)
    \/ \E err \in PanicErrors : CallInternalServerError(err)
    \/ \E err \in ResolveOutcomes : CallResolve(err)
    \/ \E allowedMethods \in AllowedMethodLists : CallAssertMethod(allowedMethods)
    \/ CallFromJSON

SpecSink == InitSink /\ [][NextSink]_vars


\* ------------------------------------------- the artifact map of a Context

FixtureArtifactNames == {"number", "extra"}
FixtureArtifactValues == {"5", "john"}

InitArtifacts ==
    /\ InitFixture
    /\ r = NewRequest(GET, <<"/">>)

CallSetMiddlewareArtifact(name, value) ==
    /\ MoreCalls
    /\ ctx' = SetMiddlewareArtifact(ctx, name, value)
    /\ lastSet' = [n \in DOMAIN lastSet \cup {name} |->
                      IF n = name THEN [value |-> value, at |-> Len(invoked)]
                      ELSE lastSet[n]]
    /\ call' = [op |-> "SetMiddlewareArtifact", n |-> call.n + 1, name |-> name,
                value |-> value]
    /\ UNCHANGED <<config, routesByPath, hasBeenBuilt, fault, mx, pc, r, w, mrw,
                   route, invoked, returned, writes, panicValue, propagated,
                   logged, builderCalls, other>>

CallGetMiddlewareArtifact(name) ==
    /\ MoreCalls
    /\ call' = [op |-> "GetMiddlewareArtifact", n |-> call.n + 1, name |-> name,
                value |-> GetMiddlewareArtifact(ctx, name)]
    /\ UNCHANGED <<fixtureConst, w, mrw, writes>>

NextArtifacts ==
    \/ \E name \in FixtureArtifactNames, value \in FixtureArtifactValues :
          CallSetMiddlewareArtifact(name, value)
    \/ \E name \in FixtureArtifactNames : CallGetMiddlewareArtifact(name)
    \/ \E code \in SinkCodes : CallRespond(code)
    \/ \E code \in SinkCodes, model \in FixtureModels :
          CallRespondWithJSON(code, model)
    \/ \E err \in ResolveOutcomes : CallResolve(err)

SpecArtifacts == InitArtifacts /\ [][NextArtifacts]_vars

\* ================================================================ claims

\* The request in hand went to a route: the path matched, the method passed
\* AssertMethod and handlerByMethod held a handler for it.
Dispatched == route # NoRoute

AllReturnedTrue ==
    /\ Len(returned) = Len(route.middleware)
    /\ \A i \in 1..Len(returned) : returned[i]

HandleInvoked == \E i \in 1..Len(invoked) : invoked[i] = "Handle"

\* C1: for a request dispatched to a route, once a middleware has returned
\* false nothing of the route is invoked after it, and Handle is invoked if
\* and only if every middleware of the route has returned true.
C1_ShortCircuit ==
    Dispatched =>
        /\ HandleInvoked <=> AllReturnedTrue
        /\ \A i \in 1..Len(returned) : ~returned[i] => Len(invoked) = i

\* C1 witness: the first of two middleware returned false and the request is
\* over with nothing else invoked.
C1_Witness ==
    /\ pc = "done"
    /\ Len(route.middleware) = 2
    /\ returned = <<FALSE>>
    /\ invoked = <<route.middleware[1]>>

\* C2: the units invoked are, in order and once each, a prefix of the
\* route's Middleware() followed by Handle; at most one unit is running, a
\* unit starts only when the one before it has returned, Handle only after
\* the last middleware; and an artifact set by a unit reads back, with the
\* value set, in that unit and every later one of the request.
C2_OrderAndArtifacts ==
    Dispatched =>
        /\ Len(invoked) <= Len(route.middleware) + 1
        /\ \A i \in 1..Len(invoked) :
              invoked[i] = IF i <= Len(route.middleware)
                           THEN route.middleware[i]
                           ELSE "Handle"
        /\ Len(returned) <= Len(route.middleware)
        /\ Len(returned) <= Len(invoked)
        /\ Len(invoked) <= Len(returned) + 1
        /\ pc = "mw" => Len(invoked) = Len(returned) + 1
        /\ HandleInvoked => Len(returned) = Len(route.middleware)
        /\ \A name \in DOMAIN lastSet :
              /\ lastSet[name].at <= Len(invoked)
              /\ GetMiddlewareArtifact(ctx, name) = lastSet[name].value

\* C2 witness: Handle runs after two middleware and reads the artifact the
\* first of them set.
C2_Witness ==
    /\ pc = "handler"
    /\ invoked = <<"auth", "audit", "Handle">>
    /\ "extra" \in DOMAIN lastSet
    /\ lastSet["extra"].at = 1
    /\ GetMiddlewareArtifact(ctx, "extra") = "!"

PanicInFlight == pc = "deferred" /\ panicValue # NoPanic

IsInternalServerErrorEnvelope(chunk) ==
    /\ chunk.json.kind = "problem"
    /\ chunk.json.type = <<config.ProblemDetailsTypePrefix, "/http/internal-server-error">>
    /\ chunk.json.title = "Internal Server Error"

\* C3: a panic that reaches the recovery boundary while no header has been
\* written through the sink is stopped there, invokes nothing more, and the
\* boundary responds once: one WriteHeader(500) and one body chunk, the
\* internal-server-error envelope, whose error is the panic's text when
\* DebuggingEnabled (and absent otherwise).  When nothing at all had been
\* sent, the response is exactly that: status 500 and the envelope alone.
C3_PanicBecomes500 ==
    [][(PanicInFlight /\ ~HasWrittenHeaders(mrw)) =>
        /\ pc' = "done"
        /\ ~propagated'
        /\ invoked' = invoked /\ returned' = returned
        /\ mrw'.statusCode = StatusInternalServerError
        /\ mrw'.hasWrittenHeaders
        /\ w'.whCalls = Append(w.whCalls, StatusInternalServerError)
        /\ Len(w'.body) = Len(w.body) + 1
        /\ SubSeq(w'.body, 1, Len(w.body)) = w.body
        /\ LET envelope == w'.body[Len(w'.body)]
           IN  /\ IsInternalServerErrorEnvelope(envelope)
               /\ panicValue.kind = "string" =>
                     envelope.json.error =
                        IF config.DebuggingEnabled THEN panicValue.text ELSE ""
               /\ config.DebuggingEnabled => envelope.json.error # ""
        /\ ~w.wroteHeader =>
              /\ w'.code = StatusInternalServerError
              /\ Len(w'.body) = 1
              /\ w'.sent.cid = ctx.correlationID
    ]_vars

\* C3 witness: a handler panicked with nothing sent, and the request ended
\* with status 500 and the envelope carrying the panic's text.
C3_Witness ==
    /\ pc = "done"
    /\ panicValue = StringPanic
    /\ HandleInvoked
    /\ config.DebuggingEnabled
    /\ w.code = StatusInternalServerError
    /\ Len(w.body) = 1
    /\ w.body[1].json.error = "something to panic about"

\* C4: a panic that reaches the recovery boundary after WriteHeader has
\* been called on the sink changes nothing of the response (status, headers,
\* body), is stopped at the boundary, and the access-log line is emitted.
C4_LatePanicAbsorbed ==
    [][(PanicInFlight /\ HasWrittenHeaders(mrw)) =>
        /\ pc' = "done"
        /\ w' = w
        /\ mrw' = mrw
        /\ ~propagated'
        /\ Len(logged') = Len(logged) + 1
    ]_vars

\* C4 witness: a request ended after a panic that came after the status 201
\* was written; one line was logged.
C4_Witness ==
    /\ pc = "done"
    /\ panicValue # NoPanic
    /\ mrw.statusCode = StatusCreated
    /\ w.code = StatusCreated
    /\ Len(logged) = 1

\* C5: when part of the response has already been sent and the route's code
\* panics, the recovery boundary writes no status and appends no bytes.
C5_NothingAfterPartialResponse ==
    [][(PanicInFlight /\ w.wroteHeader) =>
        /\ w'.body = w.body
        /\ w'.whCalls = w.whCalls
        /\ mrw'.statusCode = mrw.statusCode
    ]_vars

\* C6: a request that the compiled handler has finished has exactly one
\* access-log line, none is emitted while the middleware and handler run or
\* before the recovery boundary has acted, and the line is formatted from
\* the sink as the recovery boundary left it.
C6_OneLogLine ==
    /\ pc \in {"mw", "handler", "deferred"} => logged = <<>>
    /\ pc = "done" =>
          /\ Len(logged) = 1
          /\ logged[1].path = r.Path
          /\ logged[1].size = ByteSizeToFriendlyString(Volume(mrw))

\* C6 witness: a request that ended by a recovered panic has its line.
C6_Witness ==
    /\ pc = "done"
    /\ panicValue # NoPanic
    /\ mrw.statusCode = StatusInternalServerError
    /\ Len(logged) = 1
    /\ logged[1].size.hundredths > 0

\* C7: the status in the access-log line is never zero; it is what
\* StatusCode() returns, 200 when no status was written.
C7_LoggedStatusNeverZero ==
    pc = "done" =>
        \A i \in 1..Len(logged) :
            /\ logged[i].status # 0
            /\ logged[i].status = StatusCode(mrw)

NormalReturn == pc = "deferred" /\ panicValue = NoPanic

\* C8 as claimed: when the chain and the handler return without a panic and
\* without a response, the recovery wrapper emits a 500 envelope.
C8_UnsetBecomes500 ==
    [][(NormalReturn /\ HandleInvoked /\ ~HasWrittenHeaders(mrw) /\ ~w.wroteHeader) =>
        /\ mrw'.statusCode = StatusInternalServerError
        /\ Len(w'.body) = 1
        /\ IsInternalServerErrorEnvelope(w'.body[1])
    ]_vars

\* C8 amended: when the route's code returns without a panic, the recovery
\* wrapper writes nothing (no status, header or body), whether or not a
\* response was written; it only emits the access-log line.
C8_NormalReturnWritesNothing ==
    [][NormalReturn =>
        /\ pc' = "done"
        /\ w' = w
        /\ mrw' = mrw
        /\ Len(logged') = Len(logged) + 1
    ]_vars

\* C8 witness: chain and handler returned, nothing was written, and the
\* request is over with nothing sent.
C8_Witness ==
    /\ pc = "done"
    /\ HandleInvoked
    /\ panicValue = NoPanic
    /\ ~w.wroteHeader
    /\ w.body = <<>>
    /\ ~HasWrittenHeaders(mrw)
    /\ Len(logged) = 1

\* C9: a call to Use or Build panics if and only if Build has been called
\* before it; hasBeenBuilt never goes back to false; and once it is true
\* nothing changes the registry or the compiled router.
C9_BuiltIsFinal ==
    [][/\ builderCalls' # builderCalls =>
            /\ fault' <=> hasBeenBuilt
            /\ ~hasBeenBuilt => (hasBeenBuilt' \/ routesByPath' # routesByPath)
       /\ hasBeenBuilt =>
            /\ hasBeenBuilt'
            /\ routesByPath' = routesByPath
            /\ mx' = mx
    ]_vars

\* C9 witness: a call made after Build has panicked, the registry as Build
\* found it.
C9_Witness ==
    /\ fault
    /\ hasBeenBuilt
    /\ NumRoutes = 2
    /\ Len(mx) = Cardinality(DOMAIN routesByPath)

RegisteredMethods(path) ==
    [i \in 1..Len(routesByPath[path]) |-> routesByPath[path][i].method]

\* The request's path selects a registered path none of whose routes has
\* the request's method, letter case ignored.
MethodMismatch ==
    /\ pc \in {"deferred", "done"}
    /\ MuxSelect(mx, r.Path) # 0
    /\ LET path == mx[MuxSelect(mx, r.Path)].path
       IN  \A i \in 1..Len(routesByPath[path]) :
              ToUpper(routesByPath[path][i].method) # ToUpper(r.Method)

\* C10: such a request gets 405 and the method-not-allowed envelope, with
\* methodUsed the request's method and allowedMethods the methods of the
\* path's routes in registration order, and nothing of any route is invoked.
C10_MethodNotAllowed ==
    MethodMismatch =>
        /\ invoked = <<>>
        /\ route = NoRoute
        /\ panicValue = NoPanic
        /\ mrw.statusCode = StatusMethodNotAllowed
        /\ w.code = StatusMethodNotAllowed
        /\ Len(w.body) = 1
        /\ w.body[1].json.kind = "problem"
        /\ w.body[1].json.type =
              <<config.ProblemDetailsTypePrefix, "/http/method-not-allowed">>
        /\ w.body[1].json.specifics.methodUsed = r.Method
        /\ w.body[1].json.specifics.allowedMethods =
              RegisteredMethods(mx[MuxSelect(mx, r.Path)].path)

\* C10 witness: PUT on a path registered for GET and then POST was refused.
C10_Witness ==
    /\ pc = "done"
    /\ r.Method = PUT
    /\ mrw.statusCode = StatusMethodNotAllowed
    /\ w.body[1].json.specifics.allowedMethods = <<GET, POST>>

\* The request's path selects a registered path one of whose routes has the
\* request's method, letter case ignored.
MethodMatchesIgnoringCase ==
    /\ pc # "idle"
    /\ MuxSelect(mx, r.Path) # 0
    /\ LET path == mx[MuxSelect(mx, r.Path)].path
       IN  \E i \in 1..Len(routesByPath[path]) :
              ToUpper(routesByPath[path][i].method) = ToUpper(r.Method)

\* C11: a request whose method equals a route's declared method up to
\* letter case passes the method assertion and is dispatched to that route:
\* no 405, a route with that method selected, and its first unit invoked.
C11_CaseInsensitiveDispatch ==
    MethodMatchesIgnoringCase =>
        /\ mrw.statusCode # StatusMethodNotAllowed
        /\ route # NoRoute
        /\ ToUpper(route.method) = ToUpper(r.Method)
        /\ invoked # <<>>
        /\ panicValue # NilFuncPanic

\* The request is over and no registered path matches its path.
PathUnmatched ==
    /\ pc \in {"deferred", "done"}
    /\ \A path \in DOMAIN routesByPath : ~MuxMatches(path, r.Path)

HasQuery(target) == \E i \in 1..Len(target) : target[i] = "?"

\* C12: a request whose path matches no registered path gets 404 and the
\* not-found envelope alone, whose detail and specifics hold the request's
\* path, which is the target without its query; nothing of any route is
\* invoked.
C12_NotFoundFallback ==
    PathUnmatched =>
        /\ invoked = <<>>
        /\ route = NoRoute
        /\ panicValue = NoPanic
        /\ mrw.statusCode = StatusNotFound
        /\ w.code = StatusNotFound
        /\ Len(w.body) = 1
        /\ w.body[1].json.kind = "problem"
        /\ w.body[1].json.type =
              <<config.ProblemDetailsTypePrefix, "/http/not-found">>
        /\ w.body[1].json.detail.args[2] = r.Path
        /\ w.body[1].json.specifics.subject = r.Path
        /\ ~HasQuery(r.Path)
        /\ \E k \in 0..Len(r.RequestURI) :
              /\ r.Path = SubSeq(r.RequestURI, 1, k)
              /\ k < Len(r.RequestURI) => r.RequestURI[k + 1] = "?"

\* C12 witness: a target with a query, on a path nothing is registered for,
\* was answered 404.
C12_Witness ==
    /\ pc = "done"
    /\ PathUnmatched
    /\ HasQuery(r.RequestURI)
    /\ NumRoutes > 0
    /\ mrw.statusCode = StatusNotFound

\* The sink and the writer under it are as made: nothing set, written, sent.
NothingWritten == w = NewRecorder /\ mrw = NewMeasuredResponseWriter

\* The response is the code and one problem envelope of the category.
RespondedWithProblem(code, category) ==
    /\ mrw.statusCode = code
    /\ w.code = code
    /\ Len(w.body) = 1
    /\ w.body[1].json.kind = "problem"
    /\ w.body[1].json.type = <<config.ProblemDetailsTypePrefix, category>>

\* C13: AssertContentLength(max) on a request whose Content-Length is zero
\* or negative returns false and responds 411, whatever max is.
C13_NoLengthIs411 ==
    (call.op = "AssertContentLength" /\ r.ContentLength <= 0) =>
        /\ ~call.ok
        /\ RespondedWithProblem(StatusLengthRequired, "/http/length-required")

\* C14: AssertContentLength(max) on a request whose Content-Length exceeds
\* max returns false and responds 413 with the request-entity-too-large
\* envelope, whose contentLength and maximumContentLength are the request's
\* Content-Length and max.
C14_TooLargeIs413 ==
    (call.op = "AssertContentLength" /\ r.ContentLength > call.max) =>
        /\ ~call.ok
        /\ RespondedWithProblem(StatusRequestEntityTooLarge,
                                "/http/request-entity-too-large")
        /\ w.body[1].json.specifics =
              [contentLength |-> r.ContentLength,
               maximumContentLength |-> call.max]

\* C14 witness: 27 bytes declared against a maximum of 26 were refused.
C14_Witness ==
    /\ call.op = "AssertContentLength"
    /\ r.ContentLength = 27
    /\ call.max = 26
    /\ mrw.statusCode = StatusRequestEntityTooLarge

LowerChar(c) ==
    IF \E i \in 1..Len(UpperLetters) : UpperLetters[i] = c
    THEN LowerLetters[CHOOSE i \in 1..Len(UpperLetters) : UpperLetters[i] = c]
    ELSE c

\* a and b are the same text when letter case is ignored.
SameIgnoringCase(a, b) ==
    /\ Len(a) = Len(b)
    /\ \A i \in 1..Len(a) : LowerChar(a[i]) = LowerChar(b[i])

\* text without the spaces around it.
Surrounded(text) ==
    LET solid == {i \in 1..Len(text) : text[i] # " "}
    IN  IF solid = {} THEN <<>>
        ELSE SubSeq(text, CHOOSE i \in solid : \A j \in solid : i <= j,
                          CHOOSE i \in solid : \A j \in solid : i >= j)

\* C15: AssertContentType returns true, writing nothing, exactly when the
\* request's Content-Type without the spaces around it equals an allowed
\* entry, letter case ignored; otherwise it returns false and responds 415
\* with the unsupported-media-type envelope, whose providedContentType is
\* the header as received and allowedContentTypes the list as given.
C15_ContentType ==
    call.op = "AssertContentType" =>
        LET allowed == call.allowedContentTypes
            matches == \E i \in 1..Len(allowed) :
                          SameIgnoringCase(Surrounded(r.ContentType), allowed[i])
        IN  /\ call.ok <=> matches
            /\ call.ok => NothingWritten
            /\ ~call.ok =>
                  /\ RespondedWithProblem(StatusUnsupportedMediaType,
                                          "/http/unsupported-media-type")
                  /\ w.body[1].json.specifics =
                        [providedContentType |-> r.ContentType,
                         allowedContentTypes |-> allowed]

\* C15 witness: " Application/JSON " was accepted against application/json.
C15_Witness ==
    /\ call.op = "AssertContentType"
    /\ r.ContentType = MixedCaseJSON
    /\ call.allowedContentTypes = <<ApplicationJSON>>
    /\ call.ok

\* C16: FromJSON checks, in this order and stopping at the first failure,
\* the content type (415), the content length against
\* JSONContentLengthLimit (413 above it, 411 without one), the decoding of
\* the body (400 json/deserialization) and Purify (422 with the field and
\* the error's message).  It returns true, writing nothing, only if all
\* four pass; the body is read only once type and length have passed, and
\* Purify is called only once the body has decoded.
C16_FromJSONOrder ==
    call.op = "FromJSON" =>
        LET typeOK == SameIgnoringCase(Surrounded(r.ContentType), ApplicationJSON)
            limit == config.JSONContentLengthLimit
            lengthOK == r.ContentLength > 0 /\ r.ContentLength <= limit
            decodes == Decode(r.Body).err = ""
            pure == Purify(Decode(r.Body).model).err = ""
        IN  /\ call.ok <=> (typeOK /\ lengthOK /\ decodes /\ pure)
            /\ call.ok => NothingWritten
            /\ ~typeOK =>
                  RespondedWithProblem(StatusUnsupportedMediaType,
                                       "/http/unsupported-media-type")
            /\ (typeOK /\ r.ContentLength > limit) =>
                  RespondedWithProblem(StatusRequestEntityTooLarge,
                                       "/http/request-entity-too-large")
            /\ (typeOK /\ r.ContentLength <= 0) =>
                  RespondedWithProblem(StatusLengthRequired,
                                       "/http/length-required")
            /\ (typeOK /\ lengthOK /\ ~decodes) =>
                  RespondedWithProblem(StatusBadRequest, "/json/deserialization")
            /\ (typeOK /\ lengthOK /\ decodes /\ ~pure) =>
                  /\ RespondedWithProblem(StatusUnprocessableEntity,
                                          "/http/unprocessable-entity")
                  /\ w.body[1].json.specifics =
                        [field |-> "message",
                         error |-> "cannot be the string 'invalid'"]
            /\ call.bodyRead <=> (typeOK /\ lengthOK)
            /\ call.purified <=> (typeOK /\ lengthOK /\ decodes)

\* C16 witness: a request wrong in type, length and body alike was answered
\* 415, its body unread.
C16_Witness ==
    /\ call.op = "FromJSON"
    /\ r.ContentType = ImagePNG
    /\ r.ContentLength = 0
    /\ r.Body = "truncated"
    /\ mrw.statusCode = StatusUnsupportedMediaType
    /\ ~call.bodyRead

\* C17: the response that goes out carries Correlation-ID, the string form
\* of the identifier the request's context was made with.
C17_EveryResponseCarriesID ==
    w.wroteHeader => w.sent.cid = ctx.correlationID

\* The chunk parses as JSON: every string in it was escaped, or none of
\* those put in as they are needed it.
WellFormedJSON(chunk) ==
    \/ chunk.escaped
    \/ /\ chunk.json.kind = "problem"
       /\ ~NeedsEscaping(chunk.json.error)
       /\ ~NeedsEscaping(chunk.json.type[1])

\* RespondWithJSON was the first call on the fixture and its model does not
\* serialize.
SerializationFailed ==
    /\ call.op = "RespondWithJSON"
    /\ call.n = 1
    /\ Marshal(call.model).err # ""

\* C18: RespondWithJSON(code, model) on a fresh response with a model that
\* fails to serialize answers 500 whatever code is, with a body of exactly
\* one well-formed internal-server-error envelope, whose error is present
\* exactly when DebuggingEnabled.
C18_SerializationFailure ==
    SerializationFailed =>
        /\ mrw.statusCode = StatusInternalServerError
        /\ w.code = StatusInternalServerError
        /\ Len(w.body) = 1
        /\ IsInternalServerErrorEnvelope(w.body[1])
        /\ (w.body[1].json.error # "") <=> config.DebuggingEnabled
        /\ WellFormedJSON(w.body[1])

\* The status RespondWithJSON passes on: 500 when the model does not
\* serialize, the caller's code otherwise.
EffectiveCode == IF Marshal(call.model).err # ""
                 THEN StatusInternalServerError ELSE call.code

\* C19: RespondWithJSON sets Content-Type application/json, Content-Length
\* the byte length of the serialized body and Correlation-ID before it
\* writes the status line, and writes the body after it: on a fresh response
\* the status line goes out with the call's code and all three headers, then
\* the body alone; in every case the Content-Length it set is the number of
\* bytes it passed to Write.
C19_RespondWithJSONOrder ==
    call.op = "RespondWithJSON" =>
        /\ w.header.ctype = "application/json"
        /\ w.header.cid = ctx.correlationID
        /\ w.body # <<>>
        /\ w.header.clen = w.body[Len(w.body)].n
        /\ call.n = 1 =>
              /\ w.sent = w.header
              /\ w.whCalls = <<EffectiveCode>>
              /\ w.code = EffectiveCode
              /\ mrw.statusCode = EffectiveCode
              /\ Len(w.body) = 1
              /\ mrw.volume = w.sent.clen

\* C19 witness: a model was sent with 201 on a fresh response.
C19_Witness ==
    /\ call.op = "RespondWithJSON"
    /\ call.n = 1
    /\ call.model.kind = "model"
    /\ w.code = StatusCreated
    /\ w.sent.clen = 1
    /\ w.sent.ctype = "application/json"

\* C20: of the WriteHeader calls made on a MeasuredResponseWriter, the
\* writer under it receives one, the first, with its code; that code is the
\* recorded status from then on; and every later call changes nothing.
C20_WriteHeaderOnce ==
    [][/\ Len(w'.whCalls) <= 1
       /\ mrw.hasWrittenHeaders =>
             /\ mrw'.hasWrittenHeaders
             /\ mrw'.statusCode = mrw.statusCode
             /\ w'.whCalls = w.whCalls
       /\ call'.op = "WriteHeader" =>
             IF mrw.hasWrittenHeaders
             THEN w' = w /\ mrw' = mrw
             ELSE /\ mrw'.hasWrittenHeaders
                  /\ mrw'.statusCode = call'.code
                  /\ w'.whCalls = <<call'.code>>
    ]_vars

\* C20 witness: WriteHeader(400) was called after WriteHeader(201) and the
\* writer under the sink holds the one call, 201.
C20_Witness ==
    /\ call.op = "WriteHeader"
    /\ call.n = 2
    /\ call.code = StatusBadRequest
    /\ mrw.statusCode = StatusCreated
    /\ w.whCalls = <<StatusCreated>>
    /\ w.body = <<>>

\* The operations that call WriteHeader on the sink.
CallsWriteHeader(c) ==
    \/ c.op \in {"WriteHeader", "Respond", "RespondWithJSON", "InternalServerError"}
    \/ c.op \in {"Resolve", "AssertMethod", "FromJSON"} /\ ~c.ok

\* C21: HasWrittenHeaders() is false at creation, becomes true with the
\* first call of WriteHeader and with nothing else, and never returns to
\* false; StatusCode() is 200 while it is false and from then on the code
\* of that first call.
C21_HasWrittenHeaders ==
    [][/\ call.n = 0 => (~HasWrittenHeaders(mrw) /\ StatusCode(mrw) = StatusOK)
       /\ HasWrittenHeaders(mrw') <=>
             (HasWrittenHeaders(mrw) \/ CallsWriteHeader(call'))
       /\ ~HasWrittenHeaders(mrw') => StatusCode(mrw') = StatusOK
       /\ HasWrittenHeaders(mrw) => StatusCode(mrw') = StatusCode(mrw)
       /\ (~HasWrittenHeaders(mrw) /\ call'.op \in {"WriteHeader", "Respond"}) =>
             StatusCode(mrw') = call'.code
    ]_vars

\* C21 witness: after a Write, WriteHeader(400) and WriteHeader(201), the
\* sink reports headers written and status 400.
C21_Witness ==
    /\ call.n = 3
    /\ call.op = "WriteHeader"
    /\ call.code = StatusCreated
    /\ w.body = <<UserBytes>>
    /\ HasWrittenHeaders(mrw)
    /\ StatusCode(mrw) = StatusBadRequest

RECURSIVE SumBytes(_)
SumBytes(chunks) ==
    IF chunks = <<>> THEN 0 ELSE Head(chunks).n + SumBytes(Tail(chunks))

\* C22: a Write on the sink reaches the writer under it as passed; Volume()
\* is 0 at creation, is at all times the sum of the byte counts of the
\* chunks that writer has taken, never decreases, and is left alone by
\* WriteHeader.
C22_Volume ==
    [][/\ call.n = 0 => Volume(mrw) = 0
       /\ Volume(mrw') = SumBytes(w'.body)
       /\ Volume(mrw') >= Volume(mrw)
       /\ call'.op = "Write" =>
             /\ w'.body = Append(w.body, UserBytes)
             /\ Volume(mrw') = Volume(mrw) + UserBytes.n
       /\ call'.op = "WriteHeader" =>
             /\ Volume(mrw') = Volume(mrw)
             /\ w'.body = w.body
    ]_vars

\* C22 witness: an envelope and then three bytes were written, and the
\* volume is their sum.
C22_Witness ==
    /\ call.op = "Write"
    /\ Len(w.body) = 2
    /\ w.body[1].n # UserBytes.n
    /\ Volume(mrw) = w.body[1].n + UserBytes.n

\* C23: Resolve returns true and writes nothing when the container resolves
\* every target; when the container returns an error it returns false and
\* the response is 500 and one internal-server-error envelope, whose error
\* is the container's text when DebuggingEnabled and absent otherwise.
C23_Resolve ==
    call.op = "Resolve" =>
        /\ call.ok <=> call.err = ""
        /\ call.ok => NothingWritten
        /\ ~call.ok =>
              /\ RespondedWithProblem(StatusInternalServerError,
                                      "/http/internal-server-error")
              /\ w.whCalls = <<StatusInternalServerError>>
              /\ w.body[1].json.error =
                    IF config.DebuggingEnabled THEN call.err ELSE ""

\* C23 witness: a resolution failed with debugging on and the envelope
\* carries the container's text.
C23_Witness ==
    /\ call.op = "Resolve"
    /\ ~call.ok
    /\ mrw.statusCode = StatusInternalServerError
    /\ w.body[1].json.error = ResolverMissing

\* C27: AssertMethod, AssertContentType, AssertContentLength, Resolve and
\* FromJSON, called when nothing has been written, either return true with
\* nothing written - no status, no header, no body - or return false with
\* one status line and one envelope as the whole body.
C27_AnswerIffFalse ==
    (call.n = 1 /\ call.op \in {"AssertMethod", "AssertContentType",
                                "AssertContentLength", "Resolve", "FromJSON"}) =>
        \/ call.ok /\ NothingWritten
        \/ /\ ~call.ok
           /\ w.wroteHeader
           /\ w.whCalls = <<mrw.statusCode>>
           /\ w.code = mrw.statusCode
           /\ mrw.statusCode >= 400
           /\ Len(w.body) = 1
           /\ w.body[1].json.kind = "problem"
           /\ w.sent.clen = w.body[1].n

\* C27 witness: AssertMethod refused a POST and answered 405 once.
C27_Witness ==
    /\ call.op = "AssertMethod"
    /\ call.n = 1
    /\ ~call.ok
    /\ r.Method = POST
    /\ call.allowedMethods = <<GET, ToUpper(getLower), PUT>>
    /\ w.whCalls = <<StatusMethodNotAllowed>>
    /\ Len(w.body) = 1

\* The call of this step carried a raw diagnostic text: a resolution error,
\* the error made of a panic value, a serialization error or a decode error.
CarriedDiagnostic(c) ==
    \/ c.op = "Resolve" /\ c.err # ""
    \/ c.op = "InternalServerError"
    \/ c.op = "RespondWithJSON" /\ Marshal(c.model).err # ""
    \/ c.op = "FromJSON" /\ c.bodyRead /\ ~c.purified

\* C24: with DebuggingEnabled false, a call that carries a raw diagnostic
\* text leaves the response - status, headers and body - exactly as the
\* same call with any other text would have left it, and the envelope it
\* writes has no error.
C24_DiagnosticNotLeaked ==
    [][(~config.DebuggingEnabled /\ CarriedDiagnostic(call')) =>
        LET pre == [w |-> w, mrw |-> mrw]
            post == [w |-> w', mrw |-> mrw']
        IN  /\ call'.op = "Resolve" =>
                  \A e \in ResolveOutcomes \ {""} :
                     Resolve(pre, ctx, config, e).s = post
            /\ call'.op = "InternalServerError" =>
                  \A e \in PanicErrors \cup ResolveOutcomes :
                     InternalServerError(pre, ctx, config, e) = post
            /\ call'.op = "RespondWithJSON" =>
                  \A m \in FixtureModels :
                     Marshal(m).err # "" =>
                        RespondWithJSON(pre, ctx, config, call'.code, m) = post
            /\ call'.op = "FromJSON" =>
                  \A b \in Bodies :
                     Decode(b).err # "" =>
                        FromJSON(pre, ctx, config, [r EXCEPT !.Body = b]).s = post
            /\ Len(w'.body) = Len(w.body) + 1
            /\ w'.body[Len(w'.body)].json.kind = "problem"
            /\ w'.body[Len(w'.body)].json.error = ""
    ]_vars

\* C24 witness: with debugging off a body that does not decode was answered
\* 400 with an envelope that has no error.
C24_Witness ==
    /\ ~config.DebuggingEnabled
    /\ call.op = "FromJSON"
    /\ r.Body = "truncated"
    /\ mrw.statusCode = StatusBadRequest
    /\ Len(w.body) = 1
    /\ w.body[1].json.error = ""

\* Every chunk of the body was written by a responding operation of the
\* Context, none by the caller on the writer directly.
OnlyResponses == \A i \in 1..Len(w.body) : w.body[i].json.kind # "bytes"

\* C28: when the status line went out with a Content-Length and the body is
\* the work of responding operations alone, the body bytes the underlying
\* writer has been given add up to that Content-Length.
C28_BodyMatchesContentLength ==
    (w.wroteHeader /\ w.sent.clen # NoHeader.clen /\ OnlyResponses) =>
        SumBytes(w.body) = w.sent.clen

\* What GetMiddlewareArtifact is to return: the value last set for the
\* name, nil ("") for a name never set.
LastSetValue(name) ==
    IF name \in DOMAIN lastSet THEN lastSet[name].value ELSE ""

\* C25: the artifact map is empty at creation; GetMiddlewareArtifact(name)
\* returns the value last passed to SetMiddlewareArtifact for the name, nil
\* for a name never set; the names present never become fewer; and only
\* SetMiddlewareArtifact changes the map.
C25_ArtifactMap ==
    [][/\ call.n = 0 => DOMAIN ctx.middlewareArtifacts = {}
       /\ DOMAIN ctx.middlewareArtifacts \subseteq DOMAIN ctx'.middlewareArtifacts
       /\ \A name \in FixtureArtifactNames :
             GetMiddlewareArtifact(ctx', name) = LastSetValue(name)'
       /\ call'.op = "GetMiddlewareArtifact" =>
             call'.value = LastSetValue(call'.name)
       /\ call'.op = "SetMiddlewareArtifact" =>
             /\ GetMiddlewareArtifact(ctx', call'.name) = call'.value
             /\ \A name \in FixtureArtifactNames \ {call'.name} :
                   GetMiddlewareArtifact(ctx', name) =
                      GetMiddlewareArtifact(ctx, name)
       /\ call'.op # "SetMiddlewareArtifact" =>
             ctx'.middlewareArtifacts = ctx.middlewareArtifacts
    ]_vars

\* C25 witness: "number" was set to 5, then to john, and reads john, while
\* "extra" was never set and reads nil.
C25_Witness ==
    /\ call.op = "GetMiddlewareArtifact"
    /\ call.n = 3
    /\ call.name = "number"
    /\ call.value = "john"
    /\ GetMiddlewareArtifact(ctx, "extra") = ""

\* The router a Build ranging over routesByPath in order o compiles.
RouterBuiltIn(o) ==
    [i \in 1..Len(o) |-> buildHandlerForPath(o[i], routesByPath[o[i]])]

\* The registered path the router hands the request path to, <<>> for the
\* catch-all.
SelectedPath(router, path) ==
    IF MuxSelect(router, path) = 0 THEN <<>>
    ELSE router[MuxSelect(router, path)].path

\* C30: for a fixed sequence of Use calls and a fixed request the selected
\* route is the same for every Build: whatever order Build ranges over the
\* registered paths in, the router hands each request path to the same
\* registered path as the router that was built.
C30_DeterministicDispatch ==
    (hasBeenBuilt /\ ~fault) =>
        \A target \in RequestTargets, o \in RangeOrders(DOMAIN routesByPath) :
            SelectedPath(RouterBuiltIn(o), URLPath(target)) =
               SelectedPath(mx, URLPath(target))

\* The positions of the routes declared for the method among the routes of
\* a path.
Registrations(routes, method) ==
    {i \in 1..Len(routes) : routes[i].method = method}

\* The positions of the method in a list of methods.
Occurrences(methods, method) ==
    {i \in 1..Len(methods) : methods[i] = method}

\* TRUE when sequence s is the start of sequence t.
IsPrefix(s, t) ==
    /\ Len(s) <= Len(t)
    /\ \A i \in 1..Len(s) : s[i] = t[i]

\* C29: Use takes a second route of the same normalized path and method
\* without fault; a request for a method declared at least once runs the
\* units of the route declared last for it and of no other; and a 405 for
\* the path lists each method once per declaration.
C29_LaterRouteWins ==
    /\ ~hasBeenBuilt => ~fault
    /\ (pc # "idle" /\ MuxSelect(mx, r.Path) # 0) =>
          LET routes == routesByPath[mx[MuxSelect(mx, r.Path)].path]
              regs == Registrations(routes, r.Method)
          IN  /\ regs # {} =>
                    /\ route = routes[CHOOSE i \in regs : \A j \in regs : j <= i]
                    /\ IsPrefix(invoked, route.middleware \o <<"Handle">>)
              /\ mrw.statusCode = StatusMethodNotAllowed =>
                    /\ invoked = <<>>
                    /\ \A rt \in DuplicateRoutes :
                          Cardinality(Occurrences(
                             w.body[1].json.specifics.allowedMethods, rt.method))
                          = Cardinality(Registrations(routes, rt.method))

\* C29 witness: GET /a was declared by route A and then by route D, and a
\* GET request ran D's middleware and handler to the end.
C29_Witness ==
    /\ pc = "done"
    /\ routesByPath = (<<"/", "a">> :> <<RouteA, RouteD>>)
    /\ r.Method = GET
    /\ route = RouteD
    /\ invoked = <<"audit", "Handle">>

\* What the compiled handler makes of a request up to the first call into
\* the route's code, when no other request is in flight.
ServedAlone(method, target, correlationID) ==
    LET req == NewRequest(method, target)
        c == NewContext(correlationID)
        s0 == [w |-> NewRecorder, mrw |-> NewMeasuredResponseWriter]
        k == MuxSelect(mx, req.Path)
        out == IF k = 0
               THEN notFoundHandler(s0, c, config, req)
               ELSE pathHandler(mx[k], s0, c, config, req)
    IN  [pc |-> out.pc, r |-> req, ctx |-> c, w |-> out.s.w, mrw |-> out.s.mrw,
         route |-> out.route, invoked |-> out.invoked, returned |-> <<>>,
         writes |-> 0, panicValue |-> out.panicValue, propagated |-> FALSE,
         logged |-> <<>>, lastSet |-> <<>>]

====
